---- MODULE Spec2Model ----
(***************************************************************************)
(* Model of duke_nba_email.py: the retry wrapper, the column picker, the   *)
(* school cache, the box-score collector and the delivery of the report.   *)
(***************************************************************************)
EXTENDS Integers, Sequences, FiniteSets, TLC

VARIABLES
    rt,         \* with_retries: the frame of one call (attempt, last_err, ...)
    hist,       \* with_retries: the outcomes of the invocations of fn made so far
    cols,       \* pick_col: list(df.columns)
    cands,      \* pick_col: candidates
    picked,     \* pick_col: what the call returned ("pending" before the call)
    cache,      \* the in-memory school cache (dict key -> school)
    file,       \* player_school_cache.json on disk
    call,       \* the last get_player_school call: its input and how it ended
    pc,         \* main: position in the run
    games,      \* get_duke_boxscores: games_df
    gi,         \* get_duke_boxscores: index of the next game of the loop
    rows,       \* get_duke_boxscores: rows
    fetched,    \* the box-score requests made so far: game id and how each ended
    lastGame,   \* what the last loop iteration fetched and appended
    stats,      \* main: stats_df
    body,       \* what was rendered for the reader (html or console text)
    mail        \* send_email_table_only: configuration and transport outcome

vars == <<rt, hist, cols, cands, picked, cache, file, call, pc, games, gi,
          rows, fetched, lastGame, stats, body, mail>>

retryVars == <<rt, hist>>
pickVars == <<cols, cands, picked>>
cacheVars == <<cache, file, call>>
mainVars == <<pc, games, gi, rows, fetched, lastGame, stats, body, mail>>

None == "None"

\* Sequences over S of length 0..n.
SeqUpTo(S, n) == UNION {[1..k -> S] : k \in 0..n}

(***************************************************************************)
(* RETRIES                                                                 *)
(***************************************************************************)
MaxRetries == 5

\* The exception classes of the except clause of with_retries.
TransientErrors ==
    {"ReadTimeout", "ConnectionError", "ChunkedEncodingError", "TimeoutError"}

\* Exceptions fn may raise that the except clause does not name.
OtherErrors == {"JSONDecodeError", "KeyError"}

IsTransient(err) == err \in TransientErrors

\* What one invocation of fn does: return a value or raise.
Outcomes ==
    {[kind |-> "ok", err |-> None, value |-> v] : v \in {"v1", "v2"}}
    \cup {[kind |-> "raise", err |-> e, value |-> None] :
            e \in TransientErrors \cup OtherErrors}

\* The frame of with_retries before the first iteration; range(1, retries+1)
\* is empty for retries < 1 and the function ends in its last raise.
RetryStart(retries, base_sleep) ==
    [retries |-> retries, base_sleep |-> base_sleep, attempt |-> 1,
     calls |-> 0, sleeps |-> <<>>, logged |-> 0, last_err |-> None,
     status |-> IF retries >= 1 THEN "running" ELSE "raised",
     err |-> IF retries >= 1 THEN None ELSE "RuntimeError",
     value |-> None]

\* The deterministic part of sleep_s (the jitter U(0, 0.8) is left out).
Pow2(n) == IF n <= 0 THEN 1 ELSE 2 ^ n
SleepBase(base_sleep, attempt) == base_sleep * Pow2(attempt - 1)

\* Variant of OnTransient that gives up one attempt early (C1 must notice).
OnTransient_OneShort(r, err) ==
    IF r.attempt + 1 < r.retries
    THEN [r EXCEPT !.last_err = err, !.logged = @ + 1,
                   !.sleeps = Append(@, SleepBase(r.base_sleep, r.attempt)),
                   !.attempt = @ + 1]
    ELSE [r EXCEPT !.last_err = err, !.logged = @ + 1,
                   !.status = "raised", !.err = err]

\* except (...) as e: record, log, sleep when attempts remain; the loop's end
\* after the last attempt raises last_err.
OnTransient(r, err) ==
    IF r.attempt < r.retries
    THEN [r EXCEPT !.last_err = err, !.logged = @ + 1,
                   !.sleeps = Append(@, SleepBase(r.base_sleep, r.attempt)),
                   !.attempt = @ + 1]
    ELSE [r EXCEPT !.last_err = err, !.logged = @ + 1,
                   !.status = "raised", !.err = err]

\* Variant of OnOther that retries any exception (C3 must notice).
OnOther_Retried(r, err) ==
    IF r.attempt < r.retries
    THEN [r EXCEPT !.last_err = err, !.logged = @ + 1,
                   !.sleeps = Append(@, SleepBase(r.base_sleep, r.attempt)),
                   !.attempt = @ + 1]
    ELSE [r EXCEPT !.last_err = err, !.logged = @ + 1,
                   !.status = "raised", !.err = err]

\* An exception the except clause does not catch leaves with_retries at once.
OnOther(r, err) == [r EXCEPT !.status = "raised", !.err = err]

\* Variant of OnReturn that calls fn() without returning (C2 must notice).
OnReturn_NoReturn(r, value) ==
    IF r.attempt < r.retries
    THEN [r EXCEPT !.value = value, !.attempt = @ + 1]
    ELSE [r EXCEPT !.value = value, !.status = "raised", !.err = "RuntimeError"]

\* return fn()
OnReturn(r, value) == [r EXCEPT !.status = "returned", !.value = value]

\* One iteration of the for loop, given what fn does when invoked. A frame
\* that has returned or raised executes nothing more.
RetryStep(r, out) ==
    IF r.status # "running" THEN r
    ELSE LET called == [r EXCEPT !.calls = @ + 1]
         IN  IF out.kind = "ok" THEN OnReturn(called, out.value)
             ELSE IF IsTransient(out.err) THEN OnTransient(called, out.err)
             ELSE OnOther(called, out.err)

\* with_retries(fn, retries, base_sleep) run to its end on fn's outcomes.
RECURSIVE RetryRun(_, _)
RetryRun(r, outs) ==
    IF outs = <<>> \/ r.status # "running" THEN r
    ELSE RetryRun(RetryStep(r, Head(outs)), Tail(outs))

with_retries(retries, base_sleep, outs) ==
    RetryRun(RetryStart(retries, base_sleep), outs)

RetryIdle == RetryStart(0, 0)

InitRetry ==
    /\ \E n \in 0..MaxRetries : rt = RetryStart(n, 2)
    /\ hist = <<>>

\* fn is invoked (or not, when the frame is over) and answers with out.
Attempt(out) ==
    /\ rt' = RetryStep(rt, out)
    /\ hist' = IF rt'.calls > rt.calls THEN Append(hist, out) ELSE hist
    /\ UNCHANGED <<pickVars, cacheVars, mainVars>>

(***************************************************************************)
(* SCHEMA HELPERS                                                          *)
(***************************************************************************)
MaxCols == 2
MaxCands == 2

\* str.lower() on the column names of the model: each name that holds an
\* upper-case letter, with its lower-case form. Any other name is its own.
LowerPairs ==
    { <<"TEAM_ID", "team_id">>, <<"teamId", "teamid">>, <<"TEAMID", "teamid">>,
      <<"TEAM_ABBREVIATION", "team_abbreviation">>,
      <<"teamTricode", "teamtricode">>, <<"TEAM_TRICODE", "team_tricode">>,
      <<"TEAM_ABBR", "team_abbr">>,
      <<"PLAYER_ID", "player_id">>, <<"personId", "personid">>,
      <<"PERSON_ID", "person_id">>,
      <<"PLAYER_FIRST_NAME", "player_first_name">>,
      <<"firstName", "firstname">>, <<"FIRST_NAME", "first_name">>,
      <<"PLAYER_LAST_NAME", "player_last_name">>,
      <<"familyName", "familyname">>, <<"LAST_NAME", "last_name">>,
      <<"MIN", "min">>, <<"Min", "min">>, <<"MINUTES", "minutes">>,
      <<"PTS", "pts">>, <<"Pts", "pts">> }

Lower(s) ==
    IF \E p \in LowerPairs : p[1] = s
    THEN (CHOOSE p \in LowerPairs : p[1] = s)[2]
    ELSE s

InCols(cs, c) == \E i \in DOMAIN cs : cs[i] = c

\* for c in candidates: if c in cols: return c
RECURSIVE FirstExact(_, _)
FirstExact(cs, candidates) ==
    IF candidates = <<>> THEN None
    ELSE IF InCols(cs, Head(candidates)) THEN Head(candidates)
    ELSE FirstExact(cs, Tail(candidates))

\* lower_map = {c.lower(): c for c in cols}: a later column replaces an
\* earlier one with the same lower-case form.
LowerMap(cs) ==
    [k \in {Lower(cs[i]) : i \in DOMAIN cs} |->
        cs[CHOOSE i \in DOMAIN cs :
              /\ Lower(cs[i]) = k
              /\ \A j \in DOMAIN cs : Lower(cs[j]) = k => j <= i]]

\* for c in candidates: if c.lower() in lower_map: return lower_map[c.lower()]
RECURSIVE FirstLower(_, _)
FirstLower(lower_map, candidates) ==
    IF candidates = <<>> THEN None
    ELSE IF Lower(Head(candidates)) \in DOMAIN lower_map
         THEN lower_map[Lower(Head(candidates))]
    ELSE FirstLower(lower_map, Tail(candidates))

\* Variant of pick_col with one loop that tries both comparisons on each
\* candidate in turn (C10 must notice).
RECURSIVE pick_col_OnePass(_, _)
pick_col_OnePass(cs, candidates) ==
    IF candidates = <<>> THEN None
    ELSE IF InCols(cs, Head(candidates)) THEN Head(candidates)
    ELSE IF Lower(Head(candidates)) \in DOMAIN LowerMap(cs)
         THEN LowerMap(cs)[Lower(Head(candidates))]
    ELSE pick_col_OnePass(cs, Tail(candidates))

pick_col(cs, candidates) ==
    LET exact == FirstExact(cs, candidates)
    IN  IF exact # None THEN exact
        ELSE FirstLower(LowerMap(cs), candidates)

\* The names the picker is exercised on: case variants of two fields.
PickNames == {"MIN", "Min", "min", "PTS", "pts"}

InitPick ==
    /\ cols \in SeqUpTo(PickNames, MaxCols)
    /\ cands \in SeqUpTo(PickNames, MaxCands)
    /\ picked = "pending"

PickCol ==
    /\ picked = "pending"
    /\ picked' = pick_col(cols, cands)
    /\ UNCHANGED <<cols, cands, retryVars, cacheVars, mainVars>>

(***************************************************************************)
(* SCHOOL CACHE                                                            *)
(***************************************************************************)
InfoRetries == 4

PlayerIds == {111, 555, 777, 999}

\* key = str(player_id)
StrOf(player_id) ==
    CASE player_id = 555 -> "555"
      [] player_id = 777 -> "777"
      [] player_id = 999 -> "999"
      [] player_id = 111 -> "111"
      [] player_id = 0 -> "0"

\* What CommonPlayerInfo holds for each player: the frame's columns and the
\* school cell of its row 0 (no row for 999, no school column for 111).
Biography(player_id) ==
    CASE player_id = 555 -> [empty |-> FALSE, columns |-> {"SCHOOL"}, cell |-> "Duke"]
      [] player_id = 777 -> [empty |-> FALSE, columns |-> {"COLLEGE"}, cell |-> "Kansas"]
      [] player_id = 111 -> [empty |-> FALSE, columns |-> {"DISPLAY_NAME"}, cell |-> "Duke"]
      [] OTHER -> [empty |-> TRUE, columns |-> {"SCHOOL"}, cell |-> ""]

\* school = "" unless the frame has a row and a SCHOOL or COLLEGE column.
SchoolOf(df) ==
    IF df.empty THEN ""
    ELSE IF "SCHOOL" \in df.columns \/ "COLLEGE" \in df.columns THEN df.cell
    ELSE ""

EmptyCache == [k \in {} |-> ""]

\* The caches that hold what the provider says of some of the players.
TrueCaches ==
    {[k \in {StrOf(p) : p \in S} |->
        SchoolOf(Biography(CHOOSE p \in S : StrOf(p) = k))] :
     S \in SUBSET PlayerIds}

\* json.dumps(cache): the document's members, one (key, value) per entry.
Dumps(c) == {<<k, c[k]>> : k \in DOMAIN c}

\* json.loads(text) of such a document.
Loads(members) ==
    [k \in {m[1] : m \in members} |-> (CHOOSE m \in members : m[1] = k)[2]]

FileStates ==
    {[kind |-> "missing", data |-> {}], [kind |-> "malformed", data |-> {}]}
    \cup {[kind |-> "json", data |-> Dumps(c)] : c \in TrueCaches}

\* The files a run of main starts on: none, an unreadable one, or one that
\* holds nothing or the first player.
RunFiles == {f \in FileStates : {m[1] : m \in f.data} \subseteq {"555"}}

\* {} for a missing or unparsable file, else the parsed document.
load_school_cache(f) == IF f.kind = "json" THEN Loads(f.data) ELSE EmptyCache

\* write_text(json.dumps(cache)) replaces the file.
save_school_cache(c) == [kind |-> "json", data |-> Dumps(c)]

\* How the calls of with_retries made by the collector can end, over every
\* sequence of outcomes of the wrapped request.
RetryStatuses(retries) ==
    {with_retries(retries, 2, outs).status :
        outs \in [1..retries -> {[kind |-> "ok", err |-> None, value |-> "df"],
                                 [kind |-> "raise", err |-> "ReadTimeout", value |-> None],
                                 [kind |-> "raise", err |-> "KeyError", value |-> None]}]}

InfoStatuses == RetryStatuses(InfoRetries)

\* Variant of StoreSchool that saves before it stores (C8 must notice).
StoreSchool_SaveFirst(c, key, school) ==
    [cache |-> [k \in DOMAIN c \cup {key} |-> IF k = key THEN school ELSE c[k]],
     file |-> save_school_cache(c)]

\* cache[key] = school; save_school_cache(cache)
StoreSchool(c, key, school) ==
    LET c2 == [k \in DOMAIN c \cup {key} |-> IF k = key THEN school ELSE c[k]]
    IN  [cache |-> c2, file |-> save_school_cache(c2)]

\* get_player_school(player_id, cache), the request ending with `status`.
get_player_school(player_id, c, f, status) ==
    LET key == StrOf(player_id)
    IN  IF key \in DOMAIN c
        THEN [cache |-> c, file |-> f, school |-> c[key], ended |-> "hit"]
        ELSE IF status # "returned"
        THEN [cache |-> c, file |-> f, school |-> None, ended |-> "raised"]
        ELSE LET school == SchoolOf(Biography(player_id))
                 stored == StoreSchool(c, key, school)
             IN  [cache |-> stored.cache, file |-> stored.file,
                  school |-> school, ended |-> "resolved"]

\* DUKE_SUBSTRING in school.strip().lower(), on the schools of the model.
HasDuke(school) == school \in {"Duke"}

NoCall ==
    [player_id |-> 0, status |-> "none", ended |-> "none",
     cache_before |-> EmptyCache, file_before |-> save_school_cache(EmptyCache)]

InitCache ==
    /\ file \in FileStates
    /\ cache = load_school_cache(file)
    /\ call = NoCall

CallGetPlayerSchool(player_id, status) ==
    LET r == get_player_school(player_id, cache, file, status)
    IN  /\ cache' = r.cache
        /\ file' = r.file
        /\ call' = [player_id |-> player_id, status |-> status, ended |-> r.ended,
                     cache_before |-> cache, file_before |-> file]
        /\ UNCHANGED <<retryVars, pickVars, mainVars>>

(***************************************************************************)
(* NBA DATA                                                                *)
(***************************************************************************)
ScoreboardRetries == 5
BoxRetries == 4
MaxGames == 2
MaxRows == 2
SchedGames == 3
SchedRows == 1
OppGames == 1
OppRows == 2

ScoreboardStatuses == RetryStatuses(ScoreboardRetries)
BoxStatuses == RetryStatuses(BoxRetries)

\* A missing cell of a text column and of a numeric column (None / NaN).
NaN == "NaN"
NaNInt == -1

\* int(val), 0 for a missing value.
as_int(val) == IF val = NaNInt THEN 0 ELSE val

\* str(val), "" for a missing value.
as_str(val) == IF val = NaN THEN "" ELSE val

\* Row k of the scoreboard's game header: the two teams swap sides from one
\* game to the next.
Game(k) ==
    [id |-> k,
     home |-> IF k % 2 = 1 THEN 10 ELSE 20,
     away |-> IF k % 2 = 1 THEN 20 ELSE 10]

GameLists(n) == {[i \in 1..k |-> Game(i)] : k \in 0..n}

\* The columns a player_stats frame may come with.
SchemaV3 ==
    <<"personId", "firstName", "familyName", "teamId", "teamTricode",
      "minutes", "points">>
SchemaLower == <<"personid", "teamid", "teamtricode", "minutes", "points">>
SchemaNoPid == <<"teamId", "teamTricode", "minutes", "points">>
SchemaNoTeam == <<"personId", "minutes", "points">>

\* The field a column holds, whatever its spelling.
FieldOf(col) ==
    CASE Lower(col) \in {"personid", "player_id", "person_id"} -> "pid"
      [] Lower(col) \in {"firstname", "player_first_name", "first_name"} -> "first"
      [] Lower(col) \in {"familyname", "player_last_name", "last_name"} -> "last"
      [] Lower(col) \in {"teamid", "team_id"} -> "team"
      [] Lower(col) \in {"teamtricode", "team_abbreviation", "team_tricode",
                         "team_abbr"} -> "abbr"
      [] Lower(col) \in {"min", "minutes"} -> "min"
      [] Lower(col) \in {"pts", "points"} -> "pts"

\* p[col]
Cell(p, col) == p[FieldOf(col)]

FirstName(player_id) ==
    CASE player_id = 555 -> "Cooper" [] player_id = 777 -> "Zach" [] OTHER -> NaN
LastName(player_id) ==
    CASE player_id = 555 -> "Flagg" [] player_id = 777 -> "Edey" [] OTHER -> NaN

BoxRow(player_id, team, abbr, min, pts) ==
    [pid |-> player_id, first |-> FirstName(player_id),
     last |-> LastName(player_id), team |-> team, abbr |-> abbr,
     min |-> min, pts |-> pts]

\* Rows of a roster with fixed teams: a player's line may come twice, with
\* different minutes and points.
MainRowSet ==
    {BoxRow(555, 10, "AAA", "32:10", 20), BoxRow(555, 10, "AAA", "10:05", NaNInt),
     BoxRow(777, 20, "BBB", "32:10", 20), BoxRow(777, 20, "BBB", "10:05", NaNInt)}

\* Rows whose team cells vary: either player on either team, with the
\* team's abbreviation or none.
TeamAbbr(team) == IF team = 10 THEN "AAA" ELSE "BBB"

OppRowSet ==
    {BoxRow(p, t, a, "32:10", 20) :
        p \in {555, 777}, t \in {10, 20}, a \in {"AAA", "BBB", NaN}}
    \ {BoxRow(p, t, TeamAbbr(30 - t), "32:10", 20) : p \in {555, 777}, t \in {10, 20}}

Tables(schemas, rowset, n) ==
    {[columns |-> s, data |-> d] : s \in schemas, d \in SeqUpTo(rowset, n)}

MainTables ==
    Tables({SchemaV3, SchemaLower, SchemaNoPid, SchemaNoTeam}, MainRowSet, MaxRows)

\* One line per player, on a familiar frame or on one without a player column.
SchedRowSet ==
    {BoxRow(555, 10, "AAA", "32:10", 20), BoxRow(777, 20, "BBB", "10:05", NaNInt)}

SchedTables == Tables({SchemaV3, SchemaNoPid}, SchedRowSet, SchedRows)

OppTables == Tables({SchemaV3}, OppRowSet, OppRows)

\* players_df[[team_id_col, team_abbr_col]].dropna()
TeamPairs(df, team_id_col, team_abbr_col) ==
    LET pair(p) == <<Cell(p, team_id_col), Cell(p, team_abbr_col)>>
        all == [i \in DOMAIN df.data |-> pair(df.data[i])]
    IN  SelectSeq(all, LAMBDA q : q[1] # NaNInt /\ q[2] # NaN)

\* .drop_duplicates(): the first of equal rows stays.
DropDuplicates(s) ==
    LET keep == {i \in DOMAIN s : \A j \in 1..(i - 1) : s[j] # s[i]}
        RECURSIVE build(_)
        build(i) ==
            IF i > Len(s) THEN <<>>
            ELSE IF i \in keep THEN <<s[i]>> \o build(i + 1)
            ELSE build(i + 1)
    IN  build(1)

\* .set_index(team_id_col)[team_abbr_col].to_dict(): the last row of a team
\* identifier gives its abbreviation.
ToDict(s) ==
    [t \in {s[i][1] : i \in DOMAIN s} |->
        s[CHOOSE i \in DOMAIN s :
             /\ s[i][1] = t
             /\ \A j \in DOMAIN s : s[j][1] = t => j <= i][2]]

TeamAbbrMap(df, team_id_col, team_abbr_col) ==
    ToDict(DropDuplicates(TeamPairs(df, team_id_col, team_abbr_col)))

\* Variant of OppTeamId with the two sides exchanged (C9 must notice).
OppTeamId_Swapped(game, team_id) ==
    IF team_id = game.home THEN game.home ELSE game.away

\* opp_team_id = away_team_id if team_id == home_team_id else home_team_id
OppTeamId(game, team_id) ==
    IF team_id = game.home THEN game.away ELSE game.home

\* team_abbr_map.get(opp_team_id, "UNK")
OppAbbr(team_abbr_map, opp_team_id) ==
    IF opp_team_id \in DOMAIN team_abbr_map
    THEN team_abbr_map[opp_team_id] ELSE "UNK"

\* (first + " " + last).strip() or f"PLAYER_{pid}"
PlayerName(first, last, player_id) ==
    CASE first = "" /\ last = "" ->
            (CASE player_id = 555 -> "PLAYER_555"
               [] player_id = 777 -> "PLAYER_777"
               [] player_id = 999 -> "PLAYER_999"
               [] player_id = 111 -> "PLAYER_111"
               [] OTHER -> "PLAYER_0")
      [] first # "" /\ last = "" -> first
      [] first = "" /\ last # "" -> last
      [] first = "Cooper" /\ last = "Flagg" -> "Cooper Flagg"
      [] first = "Zach" /\ last = "Edey" -> "Zach Edey"

\* The columns the loop body resolves before it reads the rows.
ResolveCols(columns) ==
    [team_id |-> pick_col(columns, <<"TEAM_ID", "teamId", "TEAMID">>),
     team_abbr |-> pick_col(columns, <<"TEAM_ABBREVIATION", "teamTricode",
                                       "TEAM_TRICODE", "TEAM_ABBR">>),
     pid |-> pick_col(columns, <<"PLAYER_ID", "personId", "PERSON_ID">>),
     first |-> pick_col(columns, <<"PLAYER_FIRST_NAME", "firstName", "FIRST_NAME">>),
     last |-> pick_col(columns, <<"PLAYER_LAST_NAME", "familyName", "LAST_NAME">>),
     min |-> pick_col(columns, <<"MIN", "minutes", "MINUTES">>),
     pts |-> pick_col(columns, <<"PTS", "points">>)]

\* The resolved columns of each frame of the model.
Schemas == {SchemaV3, SchemaLower, SchemaNoPid, SchemaNoTeam}
ResolvedCols == [columns \in Schemas |-> ResolveCols(columns)]

\* The output row of one box-score row. player_id, game_id and team_id are
\* not columns of the report: they name the box-score row the line came from.
StatRow(game, rc, team_abbr_map, p, player_id) ==
    LET team_id == as_int(Cell(p, rc.team_id))
        first == IF rc.first # None THEN as_str(Cell(p, rc.first)) ELSE ""
        last == IF rc.last # None THEN as_str(Cell(p, rc.last)) ELSE ""
    IN  [Player |-> PlayerName(first, last, player_id),
         Team |-> as_str(Cell(p, rc.team_abbr)),
         Opponent |-> OppAbbr(team_abbr_map, OppTeamId(game, team_id)),
         MIN |-> IF rc.min # None THEN as_str(Cell(p, rc.min)) ELSE "",
         PTS |-> IF rc.pts # None THEN as_int(Cell(p, rc.pts)) ELSE 0,
         player_id |-> player_id, game_id |-> game.id, team_id |-> team_id]

\* What one box-score row does to rows and to the cache: a player whose
\* lookup raises or whose school is not Duke adds no row.
PlayerStep(game, rc, team_abbr_map, p, info, acc) ==
    LET player_id == as_int(Cell(p, rc.pid))
        g == get_player_school(player_id, acc.cache, acc.file, info)
        looked == [acc EXCEPT !.cache = g.cache, !.file = g.file]
    IN  IF g.ended = "raised" THEN looked
        ELSE IF ~HasDuke(g.school) THEN looked
        ELSE [looked EXCEPT
                !.rows = Append(@, StatRow(game, rc, team_abbr_map, p, player_id))]

\* for _, p in players_df.iterrows(): ...
RECURSIVE PlayerRows(_, _, _, _, _, _, _)
PlayerRows(game, rc, team_abbr_map, df, infos, i, acc) ==
    IF i > Len(df.data) THEN acc
    ELSE PlayerRows(game, rc, team_abbr_map, df, infos, i + 1,
                    PlayerStep(game, rc, team_abbr_map, df.data[i], infos[i], acc))

\* Variant of OnBoxFailure whose handler starts the rows afresh (C4 must
\* notice).
OnBoxFailure_DropsRows(acc) == [acc EXCEPT !.rows = <<>>]

\* except Exception: print(...); continue
OnBoxFailure(acc) == acc

\* One iteration of the loop over the games: acc is (rows, cache, file) before
\* it, status how the box-score request ended, df the frame it returned.
CollectGame(game, status, df, infos, acc) ==
    IF status # "returned" THEN OnBoxFailure(acc)
    ELSE IF df.data = <<>> THEN acc
    ELSE LET rc == ResolvedCols[df.columns]
         IN  IF rc.team_id = None \/ rc.team_abbr = None THEN acc
             ELSE IF rc.pid = None THEN acc
             ELSE PlayerRows(game, rc,
                             TeamAbbrMap(df, rc.team_id, rc.team_abbr),
                             df, infos, 1, acc)

\* Python's order of the player names of the model.
NameOrder ==
    <<"Cooper", "Cooper Flagg", "Edey", "Flagg", "PLAYER_0", "PLAYER_111", "PLAYER_555",
      "PLAYER_777", "PLAYER_999", "Zach", "Zach Edey">>
NameRank(name) == CHOOSE i \in DOMAIN NameOrder : NameOrder[i] = name

\* a sorts before b under ["PTS", "Player"], ascending=[False, True].
Before(a, b) ==
    \/ a.PTS > b.PTS
    \/ a.PTS = b.PTS /\ NameRank(a.Player) < NameRank(b.Player)

\* x goes after every line that does not sort after it (the sort is stable).
Insert(sorted, x) ==
    LET k == Cardinality({i \in DOMAIN sorted : ~Before(x, sorted[i])})
    IN  SubSeq(sorted, 1, k) \o <<x>> \o SubSeq(sorted, k + 1, Len(sorted))

RECURSIVE SortRows(_)
SortRows(rs) ==
    IF rs = <<>> THEN <<>>
    ELSE Insert(SortRows(SubSeq(rs, 1, Len(rs) - 1)), rs[Len(rs)])

\* The end of get_duke_boxscores: an empty frame, or the sorted rows.
Finalize(rs) == IF rs = <<>> THEN <<>> ELSE SortRows(rs)

\* What the run has not produced yet.
NoGame == [id |-> 0, status |-> "none", abbrs |-> <<>>, before |-> <<>>]
Unrendered == [text |-> None, table |-> <<>>]
NoBody ==
    [console |-> Unrendered, csv |-> Unrendered, email |-> Unrendered,
     fallback |-> Unrendered]
NoMail == [configured |-> FALSE, transport |-> "unused", sent |-> FALSE]

\* The non-missing abbreviations the frame's rows give for a team identifier.
RowAbbrs(df, team) ==
    {df.data[i].abbr : i \in {j \in DOMAIN df.data :
                                /\ df.data[j].team = team
                                /\ df.data[j].abbr # NaN}}

\* get_games and the start of get_duke_boxscores. The scoreboard request is
\* not guarded: when with_retries raises, the exception leaves main.
GetGames(lists) ==
    /\ pc = "start"
    /\ \E status \in ScoreboardStatuses, games_df \in lists :
         /\ status # "returned" => games_df = <<>>
         /\ IF status # "returned"
            THEN /\ pc' = "crashed"
                 /\ UNCHANGED <<games, gi, cache, stats>>
            ELSE /\ games' = games_df
                 /\ IF games_df = <<>>
                    THEN /\ pc' = "report"
                         /\ stats' = <<>>
                         /\ UNCHANGED <<gi, cache>>
                    ELSE /\ pc' = "loop"
                         /\ gi' = 1
                         /\ cache' = load_school_cache(file)
                         /\ stats' = stats
    /\ rows' = <<>>
    /\ UNCHANGED <<file, call, fetched, lastGame, body, mail, retryVars, pickVars>>

\* One iteration of "for _, game in games_df.iterrows()"; after the last
\* game, the rows are put in order and returned to main.
ProcessGame(tables) ==
    /\ pc = "loop"
    /\ gi <= Len(games)
    /\ \E status \in BoxStatuses, df \in tables :
         /\ status # "returned" => df.data = <<>> /\ df.columns = SchemaV3
         /\ \E infos \in [DOMAIN df.data -> InfoStatuses] :
              \* (the outcome of a request that a cached player never makes
              \* is not drawn twice)
              /\ \A i \in DOMAIN infos :
                    StrOf(df.data[i].pid) \in DOMAIN cache => infos[i] = "returned"
              /\ LET game == games[gi]
                     r == CollectGame(game, status, df, infos,
                                      [rows |-> rows, cache |-> cache, file |-> file])
                 IN  /\ rows' = r.rows
                     /\ cache' = r.cache
                     /\ file' = r.file
                     /\ fetched' = Append(fetched, [id |-> game.id, status |-> status])
                     /\ lastGame' =
                          [id |-> game.id, status |-> status,
                           abbrs |-> [t \in {game.home, game.away} |-> RowAbbrs(df, t)],
                           before |-> rows]
                     /\ gi' = gi + 1
                     /\ IF gi = Len(games)
                        THEN pc' = "report" /\ stats' = Finalize(r.rows)
                        ELSE pc' = "loop" /\ stats' = stats
    /\ UNCHANGED <<games, call, body, mail, retryVars, pickVars>>

(***************************************************************************)
(* OUTPUT                                                                  *)
(***************************************************************************)
\* A rendering of the table: its text when there are no rows, else the rows.
Text(t) == [text |-> t, table |-> <<>>]
TableOf(stats_df) == [text |-> "table", table |-> stats_df]

NoAlumniHtml == "<p>(No Duke alumni matched the box scores for this date.)</p>"

\* main's print of the table and write_table_files.
PrintAndWrite ==
    /\ pc = "report"
    /\ body' = [body EXCEPT
                  !.console = IF stats = <<>> THEN Text("(empty)") ELSE TableOf(stats),
                  !.csv = IF stats = <<>> THEN Text("No rows") ELSE TableOf(stats)]
    /\ pc' = "send"
    /\ UNCHANGED <<games, gi, rows, fetched, lastGame, stats, mail,
                   cacheVars, retryVars, pickVars>>

\* if not email_to or not smtp_host or not email_from
MissingConfig(env) == ~env.EMAIL_TO \/ ~env.SMTP_HOST \/ ~env.EMAIL_FROM

\* The html of the message: stats_df.to_html, or the fixed line when empty.
EmailHtml(stats_df) ==
    IF stats_df = <<>> THEN Text(NoAlumniHtml) ELSE TableOf(stats_df)

\* How the block "with smtplib.SMTP(...) as server" can end; login is called
\* only with a user and a password.
Transports(env) ==
    {"ok", "connect_failed", "starttls_failed", "sendmail_failed"}
    \cup (IF env.credentials THEN {"login_failed"} ELSE {})

\* The transport block is not guarded: what it raises leaves
\* send_email_table_only and main.
AfterTransport(transport) == IF transport = "ok" THEN "done" ELSE "crashed"

\* send_email_table_only. env says which variables are set.
SendEmail(env, transport) ==
    /\ pc = "send"
    /\ IF MissingConfig(env)
       THEN /\ transport = "ok"
            /\ body' = [body EXCEPT
                          !.fallback = IF stats = <<>> THEN Text("(empty)")
                                       ELSE TableOf(stats)]
            /\ mail' = NoMail
            /\ pc' = "done"
       ELSE /\ transport \in Transports(env)
            /\ body' = [body EXCEPT !.email = EmailHtml(stats)]
            /\ mail' = [configured |-> TRUE, transport |-> transport,
                        sent |-> transport = "ok"]
            /\ pc' = AfterTransport(transport)
    /\ UNCHANGED <<games, gi, rows, fetched, lastGame, stats,
                   cacheVars, retryVars, pickVars>>

Envs ==
    [EMAIL_TO : BOOLEAN, SMTP_HOST : BOOLEAN, EMAIL_FROM : BOOLEAN,
     credentials : BOOLEAN]

AllTransports ==
    {"ok", "connect_failed", "starttls_failed", "login_failed", "sendmail_failed"}

(***************************************************************************)
(* SPECIFICATIONS                                                          *)
(***************************************************************************)
IdleRetry == rt = RetryIdle /\ hist = <<>>
IdlePick == cols = <<>> /\ cands = <<>> /\ picked = "idle"
IdleCache == cache = EmptyCache /\ file = save_school_cache(EmptyCache) /\ call = NoCall
IdleMain ==
    /\ pc = "idle" /\ games = <<>> /\ gi = 0 /\ rows = <<>> /\ fetched = <<>>
    /\ lastGame = NoGame /\ stats = <<>> /\ body = NoBody /\ mail = NoMail

\* The run of main before its first statement; the cache file is whatever
\* earlier runs left.
InitMain ==
    /\ pc = "start" /\ games = <<>> /\ gi = 0 /\ rows = <<>> /\ fetched = <<>>
    /\ lastGame = NoGame /\ stats = <<>> /\ body = NoBody /\ mail = NoMail
    /\ file \in RunFiles /\ cache = EmptyCache /\ call = NoCall

\* main, on a roster with fixed teams.
Init == InitMain /\ IdleRetry /\ IdlePick
Next ==
    \/ GetGames(GameLists(MaxGames))
    \/ ProcessGame(MainTables)
    \/ PrintAndWrite
    \/ \E env \in Envs, transport \in AllTransports : SendEmail(env, transport)
Spec == Init /\ [][Next]_vars

\* main, on a day of several games with short box scores.
NextSched ==
    \/ GetGames(GameLists(SchedGames))
    \/ ProcessGame(SchedTables)
    \/ PrintAndWrite
    \/ \E env \in Envs, transport \in AllTransports : SendEmail(env, transport)
SpecSched == Init /\ [][NextSched]_vars

\* main, on box scores whose team cells vary.
NextOpp ==
    \/ GetGames(GameLists(OppGames))
    \/ ProcessGame(OppTables)
    \/ PrintAndWrite
    \/ \E env \in Envs, transport \in AllTransports : SendEmail(env, transport)
SpecOpp == Init /\ [][NextOpp]_vars

\* with_retries alone, on every sequence of outcomes of fn.
InitRetryOnly == InitRetry /\ IdlePick /\ IdleCache /\ IdleMain
NextRetry == \E out \in Outcomes : Attempt(out)
SpecRetry == InitRetryOnly /\ [][NextRetry]_vars

\* pick_col alone, on every frame and candidate list.
InitPickOnly == InitPick /\ IdleRetry /\ IdleCache /\ IdleMain
NextPick == PickCol
SpecPick == InitPickOnly /\ [][NextPick]_vars

\* get_player_school alone, called in any order on a loaded cache.
InitCacheOnly == InitCache /\ IdleRetry /\ IdlePick /\ IdleMain
NextCache ==
    \E player_id \in PlayerIds, status \in InfoStatuses :
        CallGetPlayerSchool(player_id, status)
SpecCache == InitCacheOnly /\ [][NextCache]_vars

(***************************************************************************)
(* PROPERTIES OF with_retries (SpecRetry)                                  *)
(***************************************************************************)
TransientAt(i) == hist[i].kind = "raise" /\ hist[i].err \in TransientErrors

\* C1: with retries >= 1 and fn raising a transient failure on every call,
\* fn is invoked again until it has been invoked retries times, never more,
\* and the call then ends raising the failure of the last attempt.
C1_AlwaysTransient ==
    (rt.retries >= 1 /\ \A i \in DOMAIN hist : TransientAt(i)) =>
        /\ rt.calls = Len(hist)
        /\ Len(hist) <= rt.retries
        /\ Len(hist) < rt.retries => rt.status = "running"
        /\ Len(hist) = rt.retries =>
              /\ rt.status = "raised"
              /\ rt.err = hist[rt.retries].err

C1_Witness ==
    /\ rt.retries = 5 /\ Len(hist) = 5 /\ rt.status = "raised"
    /\ \A i \in DOMAIN hist : TransientAt(i)
    /\ hist[4].err # hist[5].err

\* C2: once with_retries has returned, fn was invoked k <= retries times, the
\* first k-1 invocations raised transient failures and were logged, the k-th
\* succeeded and its value is the one returned, and no invocation followed;
\* and a success after transient failures always ends the call so.
C2_SuccessAtK ==
    LET k == Len(hist)
        shape == /\ k >= 1
                 /\ hist[k].kind = "ok"
                 /\ \A i \in 1..(k - 1) : TransientAt(i)
    IN  /\ rt.status = "returned" => shape
        /\ shape => /\ rt.status = "returned"
                    /\ rt.value = hist[k].value
                    /\ rt.calls = k
                    /\ rt.logged = k - 1
                    /\ k <= rt.retries

C2_Witness ==
    /\ rt.retries = 5 /\ Len(hist) = 3 /\ rt.status = "returned"
    /\ rt.logged = 2 /\ rt.value = "v2"

\* C3: an invocation of fn that raises a failure outside the transient class
\* is the last one: the call ends raising that failure, and the only sleeps
\* are those that followed the transient failures before it.
C3_NonTransient ==
    \A i \in DOMAIN hist :
        (hist[i].kind = "raise" /\ hist[i].err \notin TransientErrors) =>
            /\ i = Len(hist)
            /\ rt.status = "raised"
            /\ rt.err = hist[i].err
            /\ rt.calls = i
            /\ Len(rt.sleeps) = i - 1

C3_Witness ==
    /\ rt.retries = 5 /\ Len(hist) = 2 /\ rt.status = "raised"
    /\ TransientAt(1) /\ hist[2].err = "KeyError" /\ rt.err = "KeyError"

(***************************************************************************)
(* PROPERTIES OF pick_col (SpecPick)                                       *)
(***************************************************************************)
\* The candidates (by position) that are a column, and those that are one
\* when case is ignored.
ExactCands == {i \in DOMAIN cands : \E j \in DOMAIN cols : cols[j] = cands[i]}
LowerCands ==
    {i \in DOMAIN cands : \E j \in DOMAIN cols : Lower(cols[j]) = Lower(cands[i])}
First(S) == CHOOSE i \in S : \A j \in S : i <= j

\* C10: pick_col returns the first candidate that is a column; when none is,
\* a column equal, case ignored, to the earliest candidate that has one; and
\* None exactly when no candidate matches a column even with case ignored.
C10_PickCol ==
    picked # "pending" =>
        /\ ExactCands # {} => picked = cands[First(ExactCands)]
        /\ (ExactCands = {} /\ LowerCands # {}) =>
              /\ \E j \in DOMAIN cols : cols[j] = picked
              /\ Lower(picked) = Lower(cands[First(LowerCands)])
        /\ picked = None <=> LowerCands = {}

C10_Witness ==
    /\ picked \notin {"pending", None}
    /\ ExactCands = {}
    /\ Len(cands) = 2 /\ LowerCands = {2}
    /\ Len(cols) = 2 /\ cols[1] # cols[2] /\ Lower(cols[1]) = Lower(cols[2])

(***************************************************************************)
(* PROPERTIES OF THE SCHOOL CACHE (SpecCache)                              *)
(***************************************************************************)
\* C8: a call of get_player_school keeps every entry the cache had; when the
\* player was not cached and the request succeeded, the cache gains that
\* player's entry and nothing else and the file holds the cache; a hit and a
\* failed request leave the cache and the file as they were.
C8_CacheGrows ==
    call.status # "none" =>
        LET key == StrOf(call.player_id)
            before == call.cache_before
        IN  /\ \A k \in DOMAIN before : k \in DOMAIN cache /\ cache[k] = before[k]
            /\ (key \notin DOMAIN before /\ call.status = "returned") =>
                  /\ DOMAIN cache = DOMAIN before \cup {key}
                  /\ file.kind = "json"
                  /\ load_school_cache(file) = cache
            /\ (key \in DOMAIN before \/ call.status # "returned") =>
                  /\ cache = before
                  /\ file = call.file_before

C8_Witness ==
    /\ call.status = "returned"
    /\ StrOf(call.player_id) \notin DOMAIN call.cache_before
    /\ DOMAIN call.cache_before # {}
    /\ load_school_cache(call.file_before) # cache
    /\ load_school_cache(file) = cache

(***************************************************************************)
(* PROPERTIES OF THE COLLECTOR                                             *)
(***************************************************************************)
Count(s, x) == Cardinality({i \in DOMAIN s : s[i] = x})
IsPrefix(s, t) == Len(s) <= Len(t) /\ SubSeq(t, 1, Len(s)) = s

\* C4 (SpecSched): a box-score request that fails skips its game only: the
\* games are requested one after the other whatever failed before, the rows
\* collected before a failed request are all still there after it, rows are
\* only ever appended in game order, the run leaves the loop with every game
\* requested and ends abnormally, if at all, only in the transport, and the
\* frame returned holds every collected row.
C4_SkipOnlyFailedGame ==
    /\ pc = "loop" =>
          /\ 1 <= gi /\ gi <= Len(games)
          /\ Len(fetched) = gi - 1
    /\ (pc \in {"report", "send", "done"} \/ mail.configured) =>
          Len(fetched) = Len(games)
    /\ \A i \in DOMAIN fetched : fetched[i].id = games[i].id
    /\ (pc = "crashed" /\ fetched # <<>>) => mail.configured
    /\ lastGame.status # "none" => IsPrefix(lastGame.before, rows)
    /\ lastGame.status = "raised" => rows = lastGame.before
    /\ \A i, j \in DOMAIN rows : i < j => rows[i].game_id <= rows[j].game_id
    /\ \A i \in DOMAIN rows :
          \E n \in DOMAIN fetched :
              fetched[n].id = rows[i].game_id /\ fetched[n].status = "returned"
    /\ pc \in {"report", "send", "done"} =>
          /\ Len(stats) = Len(rows)
          /\ \A i \in DOMAIN rows : Count(stats, rows[i]) = Count(rows, rows[i])

C4_Witness ==
    /\ pc = "done"
    /\ Len(fetched) = 3
    /\ fetched[1].status = "returned"
    /\ fetched[2].status = "raised"
    /\ fetched[3].status = "returned"
    /\ \E i, j \in DOMAIN stats : stats[i].game_id = 1 /\ stats[j].game_id = 3

\* C9 (SpecOpp): in the game just processed, a row of a player of one of the
\* game's two teams names as Opponent an abbreviation that the game's own
\* rows give for the other team, and "UNK" exactly when they give none.
C9_Opponent ==
    lastGame.status = "returned" =>
        \A i \in DOMAIN rows :
            LET r == rows[i]
                game == games[lastGame.id]
                given == lastGame.abbrs[IF r.team_id = game.home
                                        THEN game.away ELSE game.home]
            IN  (r.game_id = lastGame.id /\ r.team_id \in {game.home, game.away}) =>
                    /\ given # {} => r.Opponent \in given
                    /\ r.Opponent = "UNK" <=> given = {}

C9_Witness ==
    /\ lastGame.status = "returned"
    /\ lastGame.abbrs[10] = {"AAA"} /\ lastGame.abbrs[20] = {"BBB"}
    /\ \E i, j \in DOMAIN rows :
          /\ rows[i].game_id = lastGame.id /\ rows[j].game_id = lastGame.id
          /\ rows[i].team_id = games[lastGame.id].home
          /\ rows[j].team_id = games[lastGame.id].away
          /\ rows[i].Opponent = TeamAbbr(games[lastGame.id].away)
          /\ rows[j].Opponent = TeamAbbr(games[lastGame.id].home)

\* C5 (Spec): the report holds at most one row for a player and a game.
C5_OneRowPerPlayerGame ==
    \A i, j \in DOMAIN stats :
        (stats[i].player_id = stats[j].player_id
            /\ stats[i].game_id = stats[j].game_id) => i = j

\* What each fixed text of the output says to its reader.
Says(text) ==
    CASE text = NoAlumniHtml -> "no_alumni_matched"
      [] text = "(empty)" -> "nothing"
      [] text = "No rows" -> "nothing"
      [] OTHER -> "table"

\* C6 (Spec): the body of a message with no rows says that no games were
\* found when the date had none, and that no alumni matched when it had some.
C6_EmptyBodiesDiffer ==
    (body.email # Unrendered /\ stats = <<>>) =>
        IF games = <<>>
        THEN Says(body.email.text) = "no_games_found"
        ELSE Says(body.email.text) = "no_alumni_matched"

\* C7 (Spec): when the configuration is present and the transport fails, the
\* run ends normally with the report printed to the console.
C7_TransportFailureCaught ==
    (mail.configured /\ mail.transport # "ok") =>
        /\ pc = "done"
        /\ body.fallback # Unrendered

====
